---- MODULE Spec2Model ----
(***************************************************************************)
(* A model of pyImageStack.ImageStack (src/pyImageStack/pyImageStack.py):  *)
(* a thin wrapper around a PyTables container file that holds one          *)
(* growable image array (node img_stack) and an optional metadata table    *)
(* (node metadata).                                                        *)
(*                                                                         *)
(* The storage engine is modelled by what the wrapper asks of it:          *)
(*   open_file      'r' needs the file, 'w' truncates, 'a' opens or creates *)
(*   EArray.append  checks that the file is writable, then the shape, then *)
(*                  writes straight into the container                     *)
(*   Row.append     puts the row into the table's write buffer; the rows   *)
(*                  reach the container when the buffer runs full (the     *)
(*                  buffer's capacity depends on the row size, so this is  *)
(*                  a nondeterministic choice) or at Table.flush           *)
(*   File.close     closes an open handle, and does nothing on a closed one*)
(*   EArray.__iter__ the array node is its own iterator: it takes the      *)
(*                  length and starts at 0 unless its loop is set up       *)
(*                  already; __next__ ends the loop at the length taken    *)
(* One container file is modelled, and two instance slots.                 *)
(* Definitions named after an operation with a suffix (_front, _noflush,   *)
(* _keepmode, ...) are faulty variants of it, used to test the properties. *)
(***************************************************************************)
EXTENDS Integers, Sequences, FiniteSets, TLC

VARIABLES
    file,   \* the container file on disk
    inst,   \* the ImageStack objects, by slot
    log,    \* history: the add_image calls that returned normally since the file was made
    it      \* the iteration over self.data of each object, by slot

vars == <<file, inst, log, it>>

\* ------------------------------------------------------------------ bounds
MaxImages == 2      \* add_image is not called on a stack that holds this many images
MaxDels == 2        \* __del__ runs at most this often on one object
MaxLoops == 2       \* an object is iterated over at most this often

\* ------------------------------------------------------------------ values
Slots == {1, 2}
Modes == {"r", "w", "a"}
Shapes == {"3x3", "10x10"}
Pixels == {"p", "q"}
Images == [shape : Shapes, pix : Pixels]

\* Python's None, and a value that is not None.
None == <<>>
Some(x) == <<x>>
Val(o) == o[1]

\* The metadata_cls of the example, cut to its integer column: {'exp_time': Int32Col()}.
Columns == {"exp_time"}
ExpTimes == {10, 20}
ColDefault == 0     \* the default of an Int32Col
\* metadata dicts: one that matches the columns, one that names no column.
MetaDicts == [{"exp_time"} -> ExpTimes] \cup [{"gain"} -> {10}]

\* dummy_img: its shape is what counts (its pixels are stored nowhere)
DummyArgs == {None} \cup {Some(i) : i \in [shape : Shapes, pix : {"p"}]}
ClsArgs == {None, Some(Columns)}
MetaArgs == {None} \cup {Some(d) : d \in MetaDicts}

\* ------------------------------------------------------------------ the container file
NoFile == [exists |-> FALSE, img_stack |-> None, metadata |-> None]
EmptyContainer == [exists |-> TRUE, img_stack |-> None, metadata |-> None]

\* tables.open_file(filename, mode)
open_file_strict(f, mode) ==
    IF mode = "w" THEN [raised |-> "none", file |-> EmptyContainer]
    ELSE IF ~f.exists THEN [raised |-> "FileNotFoundError", file |-> f]
    ELSE [raised |-> "none", file |-> f]

open_file_lenient(f, mode) ==
    IF mode = "w" THEN [raised |-> "none", file |-> EmptyContainer]
    ELSE IF f.exists THEN [raised |-> "none", file |-> f]
    ELSE [raised |-> "none", file |-> EmptyContainer]

open_file_notrunc(f, mode) ==
    IF f.exists THEN [raised |-> "none", file |-> f]
    ELSE IF mode \in {"w", "a"} THEN [raised |-> "none", file |-> EmptyContainer]
    ELSE [raised |-> "FileNotFoundError", file |-> f]

open_file(f, mode) ==
    IF mode = "w" THEN [raised |-> "none", file |-> EmptyContainer]
    ELSE IF f.exists THEN [raised |-> "none", file |-> f]
    ELSE IF mode = "a" THEN [raised |-> "none", file |-> EmptyContainer]
    ELSE [raised |-> "FileNotFoundError", file |-> f]

\* h5file.create_earray(root, 'img_stack', atom, (0,) + dummy_img.shape)
create_earray(f, sh) == [f EXCEPT !.img_stack = Some([shape |-> sh, imgs |-> <<>>])]

\* h5file.create_table(root, 'metadata', metadata_cls)
create_table(f, cols) == [f EXCEPT !.metadata = Some([cols |-> cols, rows |-> <<>>])]

\* ------------------------------------------------------------------ the instance
Blank ==
    [st |-> "none",         \* none | live | failed (__init__ raised) | torn (__del__ ran)
     mode |-> "r",          \* self.mode
     h5file |-> "unset",    \* self._h5file: unset | open | closed
     data |-> "unset",      \* self.data: unset | set (the img_stack node)
     metadata |-> "unset",  \* self.metadata: unset | None | Table
     wbuf |-> <<>>,         \* rows appended to self.metadata.row and not yet written
     created |-> FALSE,     \* constructed with a dummy_img
     closes |-> 0,          \* how often File.close() closed the handle
     dels |-> 0,            \* how often __del__ ran
     lastop |-> "none",     \* the last call on the object
     raised |-> "none"]     \* and the exception it raised, or none

\* ImageStack.__init__(filename, dummy_img, metadata_cls, mode)
ImageStack_init_keepmode(f, dummy_img, metadata_cls, mode) ==
    LET o == open_file(f, mode)
        base == [Blank EXCEPT !.mode = mode, !.lastop = "init"]
    IN  IF o.raised # "none"
        THEN [inst |-> [base EXCEPT !.st = "failed", !.raised = o.raised], file |-> o.file]
        ELSE IF dummy_img # None
        THEN LET f1 == create_earray(o.file, Val(dummy_img).shape)
                 f2 == IF metadata_cls # None THEN create_table(f1, Val(metadata_cls)) ELSE f1
             IN  [inst |-> [base EXCEPT !.st = "live", !.h5file = "open", !.data = "set",
                                        !.created = TRUE,
                                        !.metadata = IF metadata_cls # None THEN "Table" ELSE "None"],
                  file |-> f2]
        ELSE IF o.file.img_stack = None
        THEN [inst |-> [base EXCEPT !.st = "failed", !.h5file = "open",
                                    !.raised = "NoSuchNodeError"],
              file |-> o.file]
        ELSE [inst |-> [base EXCEPT !.st = "live", !.h5file = "open", !.data = "set",
                                    !.metadata = IF o.file.metadata # None THEN "Table" ELSE "None"],
              file |-> o.file]

ImageStack_init_nocatch(f, dummy_img, metadata_cls, mode) ==
    LET m == IF dummy_img # None THEN "w" ELSE mode
        o == open_file(f, m)
        base == [Blank EXCEPT !.mode = m, !.lastop = "init"]
    IN  IF o.raised # "none"
        THEN [inst |-> [base EXCEPT !.st = "failed", !.raised = o.raised], file |-> o.file]
        ELSE IF dummy_img # None
        THEN LET f1 == create_earray(o.file, Val(dummy_img).shape)
                 f2 == IF metadata_cls # None THEN create_table(f1, Val(metadata_cls)) ELSE f1
             IN  [inst |-> [base EXCEPT !.st = "live", !.h5file = "open", !.data = "set",
                                        !.created = TRUE,
                                        !.metadata = IF metadata_cls # None THEN "Table" ELSE "None"],
                  file |-> f2]
        ELSE IF o.file.img_stack = None
        THEN [inst |-> [base EXCEPT !.st = "failed", !.h5file = "open",
                                    !.raised = "NoSuchNodeError"],
              file |-> o.file]
        ELSE IF o.file.metadata = None
        THEN [inst |-> [base EXCEPT !.st = "failed", !.h5file = "open", !.data = "set",
                                    !.raised = "NoSuchNodeError"],
              file |-> o.file]
        ELSE [inst |-> [base EXCEPT !.st = "live", !.h5file = "open", !.data = "set",
                                    !.metadata = "Table"],
              file |-> o.file]

ImageStack_init(f, dummy_img, metadata_cls, mode) ==
    LET m == IF dummy_img # None THEN "w" ELSE mode
        o == open_file(f, m)
        base == [Blank EXCEPT !.mode = m, !.lastop = "init"]
    IN  IF o.raised # "none"
        THEN [inst |-> [base EXCEPT !.st = "failed", !.raised = o.raised], file |-> o.file]
        ELSE IF dummy_img # None
        THEN LET f1 == create_earray(o.file, Val(dummy_img).shape)
                 f2 == IF metadata_cls # None THEN create_table(f1, Val(metadata_cls)) ELSE f1
             IN  [inst |-> [base EXCEPT !.st = "live", !.h5file = "open", !.data = "set",
                                        !.created = TRUE,
                                        !.metadata = IF metadata_cls # None THEN "Table" ELSE "None"],
                  file |-> f2]
        ELSE IF o.file.img_stack = None
        THEN [inst |-> [base EXCEPT !.st = "failed", !.h5file = "open",
                                    !.raised = "NoSuchNodeError"],
              file |-> o.file]
        ELSE [inst |-> [base EXCEPT !.st = "live", !.h5file = "open", !.data = "set",
                                    !.metadata = IF o.file.metadata # None THEN "Table" ELSE "None"],
              file |-> o.file]

\* ImageStack.shape: (N, item_shape) of self.data, the file's img_stack node
shape(f) == <<Len(Val(f.img_stack).imgs), Val(f.img_stack).shape>>

\* ImageStack.has_metadata()
has_metadata(x) == x.metadata = "Table"

\* ImageStack._get_metadata_row()
get_metadata_row(x) == IF has_metadata(x) THEN "Row" ELSE "None"

\* ImageStack.__getitem__(i), 0-based
getitem(f, i) == Val(f.img_stack).imgs[i + 1]

\* len(self.metadata) and self.metadata[i]: the rows written to the container
metadata_len(f) == Len(Val(f.metadata).rows)
metadata_at(f, i) == Val(f.metadata).rows[i + 1]

\* the row a metadata dict makes: the columns' defaults, overwritten by the dict
RowOf(cols, d) == [c \in cols |-> IF c \in DOMAIN d THEN d[c] ELSE ColDefault]

\* Table.flush(): the buffered rows go to the container
Table_flush(x, f) ==
    [inst |-> [x EXCEPT !.wbuf = <<>>],
     file |-> IF x.wbuf = <<>> THEN f
              ELSE [f EXCEPT !.metadata = Some([Val(f.metadata) EXCEPT !.rows = @ \o x.wbuf])]]

\* EArray.append(np.expand_dims(img, 0))
EArray_append_front(x, f, img) ==
    IF x.mode = "r" THEN [raised |-> "FileModeError", file |-> f]
    ELSE IF img.shape # Val(f.img_stack).shape THEN [raised |-> "ValueError", file |-> f]
    ELSE [raised |-> "none",
          file |-> [f EXCEPT !.img_stack = Some([Val(f.img_stack) EXCEPT !.imgs = <<img>> \o @])]]

EArray_append_nomode(x, f, img) ==
    IF img.shape # Val(f.img_stack).shape THEN [raised |-> "ValueError", file |-> f]
    ELSE [raised |-> "none",
          file |-> [f EXCEPT !.img_stack = Some([Val(f.img_stack) EXCEPT !.imgs = Append(@, img)])]]

EArray_append(x, f, img) ==
    IF x.mode = "r" THEN [raised |-> "FileModeError", file |-> f]
    ELSE IF img.shape # Val(f.img_stack).shape THEN [raised |-> "ValueError", file |-> f]
    ELSE [raised |-> "none",
          file |-> [f EXCEPT !.img_stack = Some([Val(f.img_stack) EXCEPT !.imgs = Append(@, img)])]]

\* lines 111-115 of add_image: the metadata part
add_metadata_discard(x, f, metadata, full) ==
    IF metadata = None \/ get_metadata_row(x) = "None"
    THEN [inst |-> [x EXCEPT !.raised = "none"], file |-> f]
    ELSE IF ~(DOMAIN Val(metadata) \subseteq Val(f.metadata).cols)
         THEN [inst |-> [x EXCEPT !.raised = "KeyError"], file |-> f]
    ELSE LET y == [x EXCEPT !.raised = "none",
                            !.wbuf = Append(@, RowOf(Val(f.metadata).cols, Val(metadata)))]
         IN  IF full THEN Table_flush(y, f) ELSE [inst |-> y, file |-> f]

add_metadata_maketable(x, f, metadata, full) ==
    IF metadata = None THEN [inst |-> [x EXCEPT !.raised = "none"], file |-> f]
    ELSE LET f1 == IF f.metadata = None THEN create_table(f, DOMAIN Val(metadata)) ELSE f
             x1 == [x EXCEPT !.metadata = "Table"]
         IN  IF ~(DOMAIN Val(metadata) \subseteq Val(f1.metadata).cols)
             THEN [inst |-> [x1 EXCEPT !.raised = "KeyError"], file |-> f1]
             ELSE LET y == [x1 EXCEPT !.raised = "none",
                                      !.wbuf = Append(@, RowOf(Val(f1.metadata).cols, Val(metadata)))]
                  IN  IF full THEN Table_flush(y, f1) ELSE [inst |-> y, file |-> f1]

add_metadata_padrow(x, f, metadata, full) ==
    IF metadata = None /\ ~has_metadata(x) THEN [inst |-> [x EXCEPT !.raised = "none"], file |-> f]
    ELSE IF metadata = None
         THEN [inst |-> [x EXCEPT !.raised = "none",
                                  !.wbuf = Append(@, [c \in Val(f.metadata).cols |-> ColDefault])],
               file |-> f]
    ELSE IF get_metadata_row(x) = "None"
         THEN [inst |-> [x EXCEPT !.raised = "TypeError"], file |-> f]
    ELSE IF ~(DOMAIN Val(metadata) \subseteq Val(f.metadata).cols)
         THEN [inst |-> [x EXCEPT !.raised = "KeyError"], file |-> f]
    ELSE LET y == [x EXCEPT !.raised = "none",
                            !.wbuf = Append(@, RowOf(Val(f.metadata).cols, Val(metadata)))]
         IN  IF full THEN Table_flush(y, f) ELSE [inst |-> y, file |-> f]

add_metadata(x, f, metadata, full) ==
    IF metadata = None THEN [inst |-> [x EXCEPT !.raised = "none"], file |-> f]
    ELSE IF get_metadata_row(x) = "None"
         THEN [inst |-> [x EXCEPT !.raised = "TypeError"], file |-> f]
    ELSE IF ~(DOMAIN Val(metadata) \subseteq Val(f.metadata).cols)
         THEN [inst |-> [x EXCEPT !.raised = "KeyError"], file |-> f]
    ELSE LET y == [x EXCEPT !.raised = "none",
                            !.wbuf = Append(@, RowOf(Val(f.metadata).cols, Val(metadata)))]
         IN  IF full THEN Table_flush(y, f) ELSE [inst |-> y, file |-> f]

\* ImageStack.add_image(img, metadata)
add_image_metadata_first(x, f, img, metadata, full) ==
    LET x0 == [x EXCEPT !.lastop = "add_image"]
        m == add_metadata(x0, f, metadata, full)
        a == EArray_append(x0, m.file, img)
    IN  IF m.inst.raised # "none" THEN m
        ELSE [inst |-> [m.inst EXCEPT !.raised = a.raised], file |-> a.file]

add_image(x, f, img, metadata, full) ==
    LET x0 == [x EXCEPT !.lastop = "add_image"]
        a == EArray_append(x0, f, img)
    IN  IF a.raised # "none"
        THEN [inst |-> [x0 EXCEPT !.raised = a.raised], file |-> a.file]
        ELSE add_metadata(x0, a.file, metadata, full)

\* File.close()
File_close(x) ==
    IF x.h5file = "open" THEN [x EXCEPT !.h5file = "closed", !.closes = @ + 1] ELSE x

\* ImageStack.__del__()
ImageStack_del_noflush(x, f) ==
    LET x0 == [x EXCEPT !.lastop = "del", !.dels = @ + 1,
                        !.st = IF x.st = "live" THEN "torn" ELSE x.st]
    IN  IF x.metadata = "unset"
        THEN [inst |-> [x0 EXCEPT !.raised = "AttributeError", !.st = "torn"], file |-> f]
        ELSE [inst |-> File_close([x0 EXCEPT !.raised = "none"]), file |-> f]

ImageStack_del(x, f) ==
    LET x0 == [x EXCEPT !.lastop = "del", !.dels = @ + 1,
                        !.st = IF x.st = "live" THEN "torn" ELSE x.st]
    IN  IF x.metadata = "unset"
        THEN \* has_metadata() raises AttributeError: nothing after it runs
             [inst |-> [x0 EXCEPT !.raised = "AttributeError", !.st = "torn"], file |-> f]
        ELSE LET fl == IF has_metadata(x0) /\ x0.h5file = "open"
                       THEN Table_flush(x0, f)
                       ELSE [inst |-> x0, file |-> f]
             IN  [inst |-> File_close([fl.inst EXCEPT !.raised = "none"]), file |-> fl.file]

\* The iteration state of the img_stack node, which is its own iterator, and
\* what the running `for` loop over the stack has seen.
NoIter ==
    [init |-> FALSE,    \* the node's loop is set up (_init)
     stop |-> 0,        \* the length taken when the loop was set up (_stop)
     nread |-> 0,       \* the rows read so far (_nrowsread)
     inloop |-> FALSE,  \* a `for` loop over the stack is running
     fresh |-> FALSE,   \* the running loop set the node's loop up itself
     n0 |-> 0,          \* shape[0] when the running loop began
     out |-> <<>>,      \* the images the running loop was given
     done |-> FALSE,    \* the loop ended with StopIteration
     loops |-> 0]       \* the loops begun on the object

\* EArray.__iter__(): sets the loop up unless one is set up already
EArray_iter_short(i, f) ==
    IF ~i.init
    THEN [i EXCEPT !.init = TRUE, !.nread = 0,
                   !.stop = IF Len(Val(f.img_stack).imgs) > 0
                            THEN Len(Val(f.img_stack).imgs) - 1 ELSE 0]
    ELSE i

EArray_iter(i, f) ==
    IF ~i.init
    THEN [i EXCEPT !.init = TRUE, !.stop = Len(Val(f.img_stack).imgs), !.nread = 0]
    ELSE i

\* EArray.__next__(): the next row, or StopIteration at the length taken
EArray_next_backwards(i, f) ==
    IF i.nread >= i.stop
    THEN [i EXCEPT !.init = FALSE, !.inloop = FALSE, !.done = TRUE]
    ELSE [i EXCEPT !.nread = @ + 1,
                   !.out = Append(@, Val(f.img_stack).imgs[i.stop - i.nread])]

EArray_next(i, f) ==
    IF i.nread >= i.stop
    THEN [i EXCEPT !.init = FALSE, !.inloop = FALSE, !.done = TRUE]
    ELSE [i EXCEPT !.nread = @ + 1,
                   !.out = Append(@, Val(f.img_stack).imgs[i.nread + 1])]

\* File.close() closes the node: its loop is gone, what a loop has seen stays
NodeClosed(i) == [i EXCEPT !.init = FALSE, !.stop = 0, !.nread = 0, !.inloop = FALSE]

\* ImageStack.__iter__(), as a `for` loop calls it
ImageStack_iter(i, f) ==
    [EArray_iter(i, f) EXCEPT !.inloop = TRUE, !.fresh = ~i.init,
                              !.n0 = Len(Val(f.img_stack).imgs),
                              !.out = <<>>, !.done = FALSE, !.loops = @ + 1]

\* ------------------------------------------------------------------ history
NoLog == [made |-> FALSE, schema |-> FALSE, shape |-> "none", calls |-> <<>>, clean |-> TRUE]

\* the history after a construction
LogInit(dummy_img, metadata_cls, old, new) ==
    IF dummy_img # None
    THEN [made |-> TRUE, schema |-> metadata_cls # None, shape |-> Val(dummy_img).shape,
          calls |-> <<>>, clean |-> TRUE]
    ELSE IF new # old THEN NoLog ELSE log

\* the history after an add_image call
LogAdd(img, metadata, raised) ==
    IF raised = "none"
    THEN [log EXCEPT !.calls = Append(@, [img |-> img, metadata |-> metadata])]
    ELSE [log EXCEPT !.clean = FALSE]

\* ------------------------------------------------------------------ actions
Init ==
    /\ file = NoFile
    /\ inst = [s \in Slots |-> Blank]
    /\ log = NoLog
    /\ it = [s \in Slots |-> NoIter]

\* The supported access model: one writer alone, or readers only. Slot 2 holds
\* a second instance made while the one of slot 1 is live, and a stack is made
\* when the objects torn down before it are gone.
Supported(s, m) ==
    /\ \A t \in Slots \ {s} :
          /\ inst[t].st \in {"none", "live"}
          /\ inst[t].st = "live" => (m = "r" /\ inst[t].mode = "r")
    /\ s = 2 => inst[1].st = "live"

Construct(s, dummy_img, metadata_cls, mode) ==
    /\ inst[s].st \in {"none", "torn"}
    /\ Supported(s, IF dummy_img # None THEN "w" ELSE mode)
    /\ LET r == ImageStack_init(file, dummy_img, metadata_cls, mode)
       IN  /\ inst' = [inst EXCEPT ![s] = r.inst]
           /\ file' = r.file
           /\ log' = LogInit(dummy_img, metadata_cls, file, r.file)
           /\ it' = [it EXCEPT ![s] = NoIter]

AddImage(s, img, metadata, full) ==
    /\ inst[s].st = "live"
    /\ Len(Val(file.img_stack).imgs) < MaxImages
    /\ LET r == add_image(inst[s], file, img, metadata, full)
       IN  /\ inst' = [inst EXCEPT ![s] = r.inst]
           /\ file' = r.file
           /\ log' = LogAdd(img, metadata, r.inst.raised)
           /\ UNCHANGED it

Del(s) ==
    /\ inst[s].st \in {"live", "failed", "torn"}
    /\ inst[s].dels < MaxDels
    /\ LET r == ImageStack_del(inst[s], file)
       IN  /\ inst' = [inst EXCEPT ![s] = r.inst]
           /\ file' = r.file
           /\ it' = [it EXCEPT ![s] = IF r.inst.h5file = "closed" THEN NodeClosed(it[s]) ELSE it[s]]
           /\ UNCHANGED log

\* The object is gone after its teardown: `del stack_write`.
Forget(s) ==
    /\ inst[s].st = "torn"
    /\ inst' = [inst EXCEPT ![s] = Blank]
    /\ it' = [it EXCEPT ![s] = NoIter]
    /\ UNCHANGED <<file, log>>

Next ==
    \/ \E s \in Slots, d \in DummyArgs, c \in ClsArgs, m \in Modes : Construct(s, d, c, m)
    \/ \E s \in Slots, i \in Images, md \in MetaArgs, full \in BOOLEAN : AddImage(s, i, md, full)
    \/ \E s \in Slots : Del(s)
    \/ \E s \in Slots : Forget(s)

Spec == Init /\ [][Next]_vars

\* `for img in stack:` begins; a loop that is running is abandoned by it
IterStart(s) ==
    /\ inst[s].st = "live"
    /\ it[s].loops < MaxLoops
    /\ it' = [it EXCEPT ![s] = ImageStack_iter(it[s], file)]
    /\ UNCHANGED <<file, inst, log>>

\* the running loop asks for its next image
IterNext(s) ==
    /\ inst[s].st = "live"
    /\ it[s].inloop
    /\ it' = [it EXCEPT ![s] = EArray_next(it[s], file)]
    /\ UNCHANGED <<file, inst, log>>

\* Iteration reads the image array alone: the stacks iterated over are those
\* without a metadata table.
NextIter ==
    \/ \E s \in Slots, d \in DummyArgs, m \in Modes : Construct(s, d, None, m)
    \/ \E s \in Slots, i \in Images : AddImage(s, i, None, FALSE)
    \/ \E s \in Slots : Del(s)
    \/ \E s \in Slots : Forget(s)
    \/ \E s \in Slots : IterStart(s)
    \/ \E s \in Slots : IterNext(s)

\* the stack with its iteration
SpecIter == Init /\ [][NextIter]_vars

\* ------------------------------------------------------------------ claims C1..C10
AllWithMetadata == \A k \in 1..Len(log.calls) : log.calls[k].metadata # None

\* an instance opened from the existing file (no dummy_img) and not used since
Reopened(s) == inst[s].st = "live" /\ ~inst[s].created /\ inst[s].lastop = "init"

\* C1: round trip. When every add_image call on a stack created with a template
\* returned normally, a stack reopened read-only after the teardown has shape
\* (N, item_shape), has_metadata() exactly when a schema was given, and image i
\* is the image of the i-th call.
C1_RoundTrip ==
    \A s \in Slots :
        (Reopened(s) /\ inst[s].mode = "r" /\ log.made /\ log.clean)
        => /\ shape(file) = <<Len(log.calls), log.shape>>
           /\ has_metadata(inst[s]) = log.schema
           /\ \A i \in 0..(Len(log.calls) - 1) : getitem(file, i) = log.calls[i + 1].img

C1_Witness ==
    \E s \in Slots :
        /\ Reopened(s) /\ inst[s].mode = "r" /\ log.made /\ log.clean
        /\ Len(log.calls) >= 2
        /\ log.calls[1].img # log.calls[2].img

\* C2: alignment on the live instance. On a stack created with a schema whose
\* add_image calls all supplied matching metadata, in every state (also before
\* any flush) len(metadata_table) = shape[0] and row i is the metadata of call i.
C2_AlignedLive ==
    \A s \in Slots :
        (inst[s].st = "live" /\ has_metadata(inst[s]) /\ log.made /\ log.schema
            /\ log.clean /\ AllWithMetadata)
        => /\ metadata_len(file) = shape(file)[1]
           /\ \A i \in 0..(metadata_len(file) - 1) :
                 metadata_at(file, i) = RowOf(Columns, Val(log.calls[i + 1].metadata))

\* C3: metadata survives close and reopen. After N add_image calls that each
\* supplied metadata, a teardown and a reopen, the table has exactly N rows and
\* row i holds the values of the i-th call.
C3_MetadataSurvives ==
    \A s \in Slots :
        (Reopened(s) /\ log.made /\ log.schema /\ log.clean /\ AllWithMetadata)
        => /\ has_metadata(inst[s])
           /\ metadata_len(file) = Len(log.calls)
           /\ \A i \in 0..(Len(log.calls) - 1) :
                 metadata_at(file, i) = RowOf(Columns, Val(log.calls[i + 1].metadata))

C3_Witness ==
    \E s \in Slots :
        /\ Reopened(s) /\ log.made /\ log.schema /\ log.clean /\ AllWithMetadata
        /\ Len(log.calls) >= 2
        /\ metadata_at(file, 0).exp_time = 10 /\ metadata_at(file, 1).exp_time = 20

\* C4: every add_image call that fails leaves shape[0] as it was.
\* In particular a call with an image of the element shape and metadata that
\* does not match the schema fails with the schema-mismatch error (a KeyError)
\* and leaves shape[0] as it was.
C4_FailedAddKeepsLength ==
    [][\A s \in Slots, img \in Images, md \in MetaArgs, full \in BOOLEAN :
          AddImage(s, img, md, full)
          => /\ inst'[s].raised # "none" => shape(file)'[1] = shape(file)[1]
             /\ (/\ has_metadata(inst[s]) /\ inst[s].mode # "r"
                 /\ img.shape = shape(file)[2] /\ md # None
                 /\ ~(DOMAIN Val(md) \subseteq Columns))
                => (inst'[s].raised = "KeyError" /\ shape(file)'[1] = shape(file)[1])]_vars

\* C5: add_image with an image of another shape than the element shape fails
\* (on a stack open for writing: with the shape-mismatch ValueError) and writes
\* nothing: the file, and with it the image array and the written rows, and the
\* buffered rows are unchanged, with or without metadata in the call.
C5_ShapeMismatchNoWrite ==
    [][\A s \in Slots, img \in Images, md \in MetaArgs, full \in BOOLEAN :
          (inst[s].st = "live" /\ img.shape # shape(file)[2] /\ AddImage(s, img, md, full))
          => /\ inst'[s].raised # "none"
             /\ inst[s].mode # "r" => inst'[s].raised = "ValueError"
             /\ file' = file
             /\ inst'[s].wbuf = inst[s].wbuf]_vars

C5_Witness ==
    \E s \in Slots :
        /\ inst[s].st = "live" /\ inst[s].lastop = "add_image"
        /\ inst[s].raised = "ValueError"
        /\ inst[s].wbuf # <<>>
        /\ shape(file)[1] > 0

\* the case of C6: a writable stack without a metadata table, an image of the
\* element shape, and a metadata dict
C6_Case(s, img, md) ==
    /\ ~has_metadata(inst[s]) /\ inst[s].mode # "r"
    /\ img.shape = shape(file)[2] /\ md # None

C7_HandleReleasedOnce ==
    \A s \in Slots :
        (inst[s].st = "torn" /\ inst[s].h5file # "unset")
        => (inst[s].h5file = "closed" /\ inst[s].closes = 1)

\* C8: construction with a template sets mode 'w' whatever mode was asked for,
\* truncates the file, and gives an empty stack of the template's shape with a
\* metadata table exactly when a schema was given.
C8_CreationOverridesMode ==
    [][\A s \in Slots, d \in DummyArgs, c \in ClsArgs, m \in Modes :
          (d # None /\ inst'[s].lastop = "init" /\ Construct(s, d, c, m))
          => /\ inst'[s].st = "live" /\ inst'[s].mode = "w"
             /\ shape(file)' = <<0, Val(d).shape>>
             /\ has_metadata(inst'[s]) = (c # None)
             /\ file' = [exists |-> TRUE,
                         img_stack |-> Some([shape |-> Val(d).shape, imgs |-> <<>>]),
                         metadata |-> IF c # None
                                      THEN Some([cols |-> Val(c), rows |-> <<>>])
                                      ELSE None]]_vars

C8_Witness ==
    /\ inst[1].st = "live" /\ inst[1].created /\ inst[1].lastop = "init"
    /\ inst[1].mode = "w" /\ shape(file)[1] = 0
    /\ log.made /\ log.calls = <<>>

\* C9: opening a file that does not exist in mode 'r' fails with a not-found
\* error, gives no instance and does not create the file.
C9_ReadMissingFails ==
    [][\A s \in Slots, c \in ClsArgs :
          (~file.exists /\ Construct(s, None, c, "r"))
          => /\ inst'[s].st = "failed" /\ inst'[s].raised = "FileNotFoundError"
             /\ inst'[s].h5file = "unset"
             /\ file' = NoFile]_vars

C9_Witness ==
    \E s \in Slots :
        /\ inst[s].st = "failed" /\ inst[s].lastop = "init" /\ inst[s].mode = "r"
        /\ inst[s].raised = "FileNotFoundError" /\ ~file.exists

\* C10 as stated: opening a file that does not exist in mode 'a' fails with the
\* file-not-found condition, as mode 'r' does.
C10_AppendMissingNotFound ==
    [][\A s \in Slots, c \in ClsArgs :
          (~file.exists /\ Construct(s, None, c, "a"))
          => inst'[s].st = "failed" /\ inst'[s].raised = "FileNotFoundError"]_vars

\* C10 amended: opening a file that does not exist in mode 'a' creates an empty
\* container and then fails with the missing-node error; there is no instance.
C10_AppendMissingCreates ==
    [][\A s \in Slots, c \in ClsArgs :
          (~file.exists /\ Construct(s, None, c, "a"))
          => /\ inst'[s].st = "failed" /\ inst'[s].raised = "NoSuchNodeError"
             /\ file' = EmptyContainer]_vars

C10_Witness ==
    \E s \in Slots :
        /\ inst[s].st = "failed" /\ inst[s].lastop = "init" /\ inst[s].mode = "a"
        /\ inst[s].raised = "NoSuchNodeError" /\ file = EmptyContainer

\* ------------------------------------------------------------------ claims C11..C20
\* C11: a missing metadata table is no error on open. Constructing without a
\* template, in mode 'r' or 'a', on a container that has an img_stack node and
\* no metadata node succeeds, has_metadata() is false, and the image array is
\* attached with its stored length (the file is as it was).
C11_MissingTableNoError ==
    [][\A s \in Slots, c \in ClsArgs, m \in {"r", "a"} :
          (/\ file.exists /\ file.img_stack # None /\ file.metadata = None
           /\ Construct(s, None, c, m))
          => /\ inst'[s].st = "live" /\ inst'[s].raised = "none"
             /\ ~has_metadata(inst'[s])
             /\ inst'[s].data = "set"
             /\ file' = file]_vars

C11_Witness ==
    \E s \in Slots :
        /\ Reopened(s) /\ ~has_metadata(inst[s])
        /\ file.metadata = None /\ shape(file)[1] >= 1

\* C12: a stack created with a template and no schema has has_metadata() false
\* after construction and after every add_image call, with or without
\* metadata, succeeding or failing.
C12_NoMetadataStays ==
    \A s \in Slots :
        (inst[s].st = "live" /\ inst[s].created /\ log.made /\ ~log.schema)
        => ~has_metadata(inst[s])

C12_Witness ==
    \E s \in Slots :
        /\ inst[s].st = "live" /\ inst[s].created /\ log.made /\ ~log.schema
        /\ inst[s].lastop = "add_image" /\ inst[s].raised = "TypeError"
        /\ Len(log.calls) >= 1

\* C13: on a stack opened in mode 'r' every add_image call fails, and the file
\* (image array and metadata table) and the instance's table and buffered rows
\* are after the call what they were before it.
C13_ReadOnlyNoMutation ==
    [][\A s \in Slots, img \in Images, md \in MetaArgs, full \in BOOLEAN :
          (inst[s].st = "live" /\ inst[s].mode = "r" /\ AddImage(s, img, md, full))
          => /\ inst'[s].raised # "none"
             /\ file' = file
             /\ inst'[s].wbuf = inst[s].wbuf
             /\ inst'[s].metadata = inst[s].metadata
             /\ inst'[s].st = "live"]_vars

C13_Witness ==
    \E s \in Slots :
        /\ inst[s].st = "live" /\ inst[s].mode = "r" /\ inst[s].lastop = "add_image"
        /\ inst[s].raised = "FileModeError"
        /\ shape(file)[1] >= 1

\* every metadata row accepted so far: the rows written to the container, then
\* the rows still in the write buffer of the instance that appended them
AllRows ==
    (IF file.metadata = None THEN <<>> ELSE Val(file.metadata).rows)
        \o inst[1].wbuf \o inst[2].wbuf

WrittenRows == IF file.metadata = None THEN <<>> ELSE Val(file.metadata).rows

IsPrefix(a, b) == Len(a) <= Len(b) /\ \A k \in 1..Len(a) : a[k] = b[k]

\* C15: a successful add_image is a pure append: shape[0] grows from N to N+1,
\* element N is the image, elements 0..N-1 and the item shape are unchanged,
\* and every metadata row there was (written or buffered) is unchanged.
C15_PureAppend ==
    [][\A s \in Slots, img \in Images, md \in MetaArgs, full \in BOOLEAN :
          (inst[s].st = "live" /\ inst'[s].raised = "none" /\ AddImage(s, img, md, full))
          => LET n == shape(file)[1]
             IN  /\ shape(file') = <<n + 1, shape(file)[2]>>
                 /\ getitem(file', n) = img
                 /\ \A i \in 0..(n - 1) : getitem(file', i) = getitem(file, i)
                 /\ IsPrefix(AllRows, AllRows')
                 /\ IsPrefix(WrittenRows, WrittenRows')]_vars

C15_Witness ==
    \E s \in Slots :
        /\ inst[s].st = "live" /\ ~inst[s].created /\ inst[s].mode = "a"
        /\ inst[s].lastop = "add_image" /\ inst[s].raised = "none"
        /\ shape(file)[1] >= 2 /\ getitem(file, 0) # getitem(file, 1)
        /\ Len(WrittenRows) >= 1

\* C16: teardown is flush-then-close. The teardown of a live stack with a
\* metadata table writes every buffered row to the container, behind the rows
\* written before, and closes the file; without a table it only closes the
\* file. No handle is ever closed while accepted rows are unwritten.
C16_FlushThenClose ==
    [][\A s \in Slots :
          /\ (inst[s].st = "live" /\ Del(s))
             => /\ inst'[s].h5file = "closed"
                /\ IF has_metadata(inst[s])
                   THEN WrittenRows' = WrittenRows \o inst[s].wbuf
                   ELSE file' = file
          /\ inst'[s].h5file = "closed" => inst'[s].wbuf = <<>>]_vars

C16_Witness ==
    \E s \in Slots :
        /\ inst[s].st = "torn" /\ inst[s].lastop = "del" /\ inst[s].h5file = "closed"
        /\ has_metadata(inst[s]) /\ inst[s].created
        /\ Len(WrittenRows) >= 2 /\ WrittenRows[1] # WrittenRows[2]

\* the calls of the history that supplied metadata
MetaCalls == SelectSeq(log.calls, LAMBDA c : c.metadata # None)

\* C18: add_image without metadata on a writable stack that has a metadata
\* table succeeds, grows shape[0] by 1 and leaves the rows (written and
\* buffered) as they were. From then on the table is shorter than the image
\* array, and the rows are those of the calls that supplied metadata, in call
\* order, so the row at index i is not that of image i for later images.
C18_OmittedMetadataMisaligns ==
    [][/\ \A s \in Slots, img \in Images, full \in BOOLEAN :
            (/\ inst[s].st = "live" /\ has_metadata(inst[s]) /\ inst[s].mode # "r"
             /\ img.shape = shape(file)[2]
             /\ AddImage(s, img, None, full))
            => /\ inst'[s].raised = "none"
               /\ shape(file')[1] = shape(file)[1] + 1
               /\ AllRows' = AllRows /\ WrittenRows' = WrittenRows
       /\ (log'.made /\ log'.schema /\ ~AllWithMetadata')
            => Len(AllRows') < shape(file')[1]
       /\ (log'.made /\ log'.schema /\ log'.clean)
            => /\ Len(AllRows') = Len(MetaCalls')
               /\ \A j \in 1..Len(AllRows') :
                     AllRows'[j] = RowOf(Columns, Val(MetaCalls'[j].metadata))]_vars

C18_Witness ==
    /\ log.made /\ log.schema /\ log.clean
    /\ Len(log.calls) = 2
    /\ log.calls[1].metadata = None /\ log.calls[2].metadata # None
    /\ Len(AllRows) = 1 /\ shape(file)[1] = 2

\* C19: for a stack created with a template and a schema, in every state the
\* number of metadata rows accepted so far (written plus buffered) is at most
\* shape[0]: no row is recorded without an image appended in the same call.
C19_RowsAtMostImages ==
    (log.made /\ log.schema) => Len(AllRows) <= shape(file)[1]

C19_Witness ==
    /\ log.made /\ log.schema /\ ~log.clean
    /\ Len(AllRows) >= 1 /\ Len(AllRows) < shape(file)[1]
    /\ \E s \in Slots : inst[s].st = "torn" /\ inst[s].created

\* C20: constructing without a template in mode 'w' never gives an instance:
\* the container is truncated first, whatever it held, and construction then
\* fails with the missing-node error.
C20_WriteWithoutTemplateFails ==
    [][\A s \in Slots, c \in ClsArgs :
          (inst'[s].lastop = "init" /\ Construct(s, None, c, "w"))
          => /\ inst'[s].st = "failed" /\ inst'[s].raised = "NoSuchNodeError"
             /\ file' = EmptyContainer]_vars

C20_Witness ==
    \E s \in Slots :
        /\ inst[s].st = "failed" /\ inst[s].lastop = "init" /\ inst[s].mode = "w"
        /\ inst[s].raised = "NoSuchNodeError" /\ file = EmptyContainer

\* the images of the file at indices 0..n-1
FirstImages(n) == SubSeq(Val(file.img_stack).imgs, 1, n)

\* a read-only instance whose one loop over the stack ran from its start to its end
IteratedReader(s) ==
    /\ inst[s].st \in {"live", "torn"} /\ inst[s].mode = "r" /\ inst[s].data = "set"
    /\ it[s].done /\ it[s].fresh

\* C14: two instances opened in mode 'r' on the same file, each iterated and
\* torn down in any interleaving, are given the same images, those of the file
\* in index order; and no step of a read-only instance (its construction, its
\* iteration, its teardown) changes the file.
C14_IdempotentReadOnlyOpen ==
    [][/\ (IteratedReader(1)' /\ IteratedReader(2)')
            => /\ it'[1].out = it'[2].out
               /\ it'[1].out = FirstImages(shape(file)[1])'
       /\ \A s \in Slots :
            (/\ inst'[s].mode = "r" /\ inst'[s].st \in {"live", "torn"}
             /\ (inst'[s] # inst[s] \/ it'[s] # it[s]))
            => file' = file]_vars

C14_Witness ==
    /\ IteratedReader(1) /\ IteratedReader(2)
    /\ inst[1].st = "torn" /\ inst[2].st = "torn"
    /\ Len(it[1].out) = 2 /\ it[1].out[1] # it[1].out[2]

\* C17 as stated: every loop over the stack that ends was given exactly the
\* images at indices 0..N-1 in that order, N the length when the loop began,
\* also a loop begun after further add_image calls.
C17_IterationRestarts ==
    \A s \in Slots : it[s].done => it[s].out = FirstImages(it[s].n0)

\* C17 amended: that holds of every loop begun when no earlier loop over the
\* same stack was left unfinished.
C17_IterationOrdered ==
    \A s \in Slots : (it[s].done /\ it[s].fresh) => it[s].out = FirstImages(it[s].n0)

C17_Witness ==
    \E s \in Slots :
        /\ inst[s].st = "live" /\ inst[s].created
        /\ it[s].done /\ it[s].fresh /\ it[s].loops = 2
        /\ it[s].n0 = 2 /\ Len(it[s].out) = 2 /\ it[s].out[1] # it[s].out[2]

====
